---- MODULE Spec2Model ----
(***************************************************************************)
(* Model of the file_tree crate (file_tree/src/lib.rs): the FileTree data  *)
(* model, the tree-diagram text codec (to_file_tree / new_from_file_tree), *)
(* the path-list builder (new_from_string_vector) and the Season symlink   *)
(* farm generator (plex_course_sym_link).                                  *)
(*                                                                         *)
(* A Rust String is modelled as a sequence of characters; a character is a *)
(* one-element token.  The box-drawing glyphs are the tokens VBAR, TEE,    *)
(* HBAR and ELL, the line feed is the token NL.                            *)
(***************************************************************************)
EXTENDS Integers, Sequences, FiniteSets, TLC

VARIABLES
    op,        \* which operation of the crate this behaviour exercises
    pc,        \* position inside that operation
    tree,      \* codec / linker: the FileTree the operation is applied to
    text,      \* codec: to_file_tree(tree, true)
    parsed,    \* codec: new_from_file_tree(text)
    text2,     \* codec: to_file_tree(parsed, true)
    input,     \* builder: the vector handed to new_from_string_vector; linker: the disk
    stack,     \* builder: the call stack of new_from_string_vector frames
    result,    \* builder: the FileTree returned by the outermost call
    calls,     \* builder: number of calls of new_from_string_vector so far
    run,       \* linker: the locals of plex_course_sym_link and the log of its calls
    fsys       \* linker: the directories and links under the destination

vars == <<op, pc, tree, text, parsed, text2, input, stack, result, calls, run, fsys>>

(***************************************************************************)
(* Characters                                                              *)
(***************************************************************************)
VBAR == "VBAR"   \* U+2502, vertical continuation
TEE  == "TEE"    \* U+251C, branch
HBAR == "HBAR"   \* U+2500, horizontal bar
ELL  == "ELL"    \* U+2514, closing branch
NL   == "NL"     \* U+000A, line feed
CR   == "CR"     \* U+000D, carriage return
SP   == " "

\* The code point of a character: str::cmp orders strings by their UTF-8
\* bytes, which is code point order.
CharCode(c) ==
    CASE c = NL   -> 10
      [] c = SP   -> 32
      [] c = "-"  -> 45
      [] c = "."  -> 46
      [] c = "/"  -> 47
      [] c = "0"  -> 48
      [] c = "1"  -> 49
      [] c = "2"  -> 50
      [] c = "3"  -> 51
      [] c = "4"  -> 52
      [] c = "5"  -> 53
      [] c = "6"  -> 54
      [] c = "7"  -> 55
      [] c = "8"  -> 56
      [] c = "9"  -> 57
      [] c = "E"  -> 69
      [] c = "S"  -> 83
      [] c = "a"  -> 97
      [] c = "b"  -> 98
      [] c = "c"  -> 99
      [] c = "d"  -> 100
      [] c = "e"  -> 101
      [] c = "i"  -> 105
      [] c = "l"  -> 108
      [] c = "m"  -> 109
      [] c = "n"  -> 110
      [] c = "o"  -> 111
      [] c = "p"  -> 112
      [] c = "r"  -> 114
      [] c = "s"  -> 115
      [] c = "t"  -> 116
      [] c = "w"  -> 119
      [] c = "x"  -> 120
      [] c = "z"  -> 122
      [] c = HBAR -> 9472
      [] c = VBAR -> 9474
      [] c = ELL  -> 9492
      [] c = TEE  -> 9500

(***************************************************************************)
(* std::string operations used by the crate                                *)
(***************************************************************************)
\* str::starts_with
StartsWith(s, p) ==
    /\ Len(p) <= Len(s)
    /\ SubSeq(s, 1, Len(p)) = p

\* str::ends_with
EndsWith(s, p) ==
    /\ Len(p) <= Len(s)
    /\ SubSeq(s, Len(s) - Len(p) + 1, Len(s)) = p

\* whether p occurs in s at position i
MatchAt(s, p, i) ==
    /\ i >= 1
    /\ i + Len(p) - 1 <= Len(s)
    /\ SubSeq(s, i, i + Len(p) - 1) = p

\* position of the first occurrence of p in s at or after i, 0 when none
RECURSIVE FindFrom(_, _, _)
FindFrom(s, p, i) ==
    IF i + Len(p) - 1 > Len(s) THEN 0
    ELSE IF MatchAt(s, p, i) THEN i
    ELSE FindFrom(s, p, i + 1)

\* str::contains
Contains(s, p) == FindFrom(s, p, 1) # 0

\* str::replace: every non-overlapping occurrence, left to right (the crate
\* only ever replaces by a shorter string; an empty pattern with an empty
\* replacement leaves the string as it is)
RECURSIVE ReplaceFrom(_, _, _, _)
ReplaceFrom(s, p, r, i) ==
    LET k == FindFrom(s, p, i)
    IN  IF Len(p) = 0 \/ k = 0 THEN SubSeq(s, i, Len(s))
        ELSE SubSeq(s, i, k - 1) \o r \o ReplaceFrom(s, p, r, k + Len(p))

Replace(s, p, r) == ReplaceFrom(s, p, r, 1)

\* str::replacen(p, r, 1): the first occurrence only
ReplaceFirst(s, p, r) ==
    LET k == FindFrom(s, p, 1)
    IN  IF Len(p) = 0 \/ k = 0 THEN s
        ELSE SubSeq(s, 1, k - 1) \o r \o SubSeq(s, k + Len(p), Len(s))

\* Regex::find_iter(..).count(): the number of non-overlapping matches of
\* the literal p
RECURSIVE CountFrom(_, _, _)
CountFrom(s, p, i) ==
    LET k == FindFrom(s, p, i)
    IN  IF k = 0 THEN 0 ELSE 1 + CountFrom(s, p, k + Len(p))

CountMatches(s, p) == CountFrom(s, p, 1)

\* str::split(c) for a one-character separator: "" splits into [""]
RECURSIVE SplitFrom(_, _, _)
SplitFrom(s, c, i) ==
    LET k == FindFrom(s, <<c>>, i)
    IN  IF k = 0 THEN <<SubSeq(s, i, Len(s))>>
        ELSE <<SubSeq(s, i, k - 1)>> \o SplitFrom(s, c, k + 1)

Split(s, c) == SplitFrom(s, c, 1)

\* [String]::join(c)
RECURSIVE Join(_, _)
Join(ss, c) ==
    IF Len(ss) = 0 THEN <<>>
    ELSE IF Len(ss) = 1 THEN ss[1]
    ELSE ss[1] \o <<c>> \o Join(Tail(ss), c)

\* a faulty variant of Lines: str::split("\n"), which makes one empty line
\* of the empty string
Lines_Split(s) == Split(s, NL)

\* str::lines(): split at line feeds, the carriage return of a "\r\n"
\* ending dropped with the line feed; a final empty line is not a line, so
\* "" has no lines and "d\n" has the one line "d"
Lines(s) ==
    LET parts == Split(s, NL)
        n     == Len(parts)
        ended == [k \in 1..(n - 1) |->
                    IF Len(parts[k]) > 0 /\ parts[k][Len(parts[k])] = CR
                    THEN SubSeq(parts[k], 1, Len(parts[k]) - 1)
                    ELSE parts[k]]
    IN  IF parts[n] = <<>> THEN ended ELSE ended \o <<parts[n]>>

\* str::cmp(a, b) = Less
RECURSIVE StrLess(_, _)
StrLess(a, b) ==
    IF Len(b) = 0 THEN FALSE
    ELSE IF Len(a) = 0 THEN TRUE
    ELSE IF a[1] = b[1] THEN StrLess(Tail(a), Tail(b))
    ELSE CharCode(a[1]) < CharCode(b[1])

\* const POST_FIXES
POST_FIXES == << <<".", "m", "p", "4">>, <<".", "z", "i", "p">>,
                 <<".", "t", "s">>, <<".", "s", "r", "t">> >>

HasPostFix(s) == \E k \in 1..Len(POST_FIXES) : EndsWith(s, POST_FIXES[k])

\* the connectors of the diagram notation
CONT   == <<VBAR, SP, SP, SP>>
BRANCH == <<TEE, HBAR, HBAR, SP>>
LAST   == <<ELL, HBAR, HBAR, SP>>
INDENT == <<SP, SP, SP, SP>>

(***************************************************************************)
(* FileTree                                                                *)
(***************************************************************************)
\* FileTree::new
NewFileTree(path) == [path |-> path, files |-> <<>>, directories |-> <<>>]

\* the outcome of a call that panics (an index out of bounds, a failed
\* assert!): no FileTree is returned
Panic == [panic |-> TRUE]

IsPanic(t) == "panic" \in DOMAIN t

(***************************************************************************)
(* to_file_tree                                                            *)
(***************************************************************************)
\* a faulty variant of FileLines: the last file gets the branch connector
\* as well
FileLines_AllBranch(files) == [i \in 1..Len(files) |-> BRANCH \o files[i]]

\* the lines pushed for self.files: the last file gets the closing
\* connector, every other file the branch connector
FileLines(files) ==
    [i \in 1..Len(files) |->
        IF i = Len(files) THEN LAST \o files[i] ELSE BRANCH \o files[i]]

\* a faulty variant of PrefixLines: the prefix is put before the subtree as
\* a whole, not before each of its lines
PrefixLines_FirstOnly(body, prefix) == prefix \o body

\* .split("\n").map(|x| format!("{prefix}{x}")).collect().join("\n")
PrefixLines(body, prefix) ==
    LET parts == Split(body, NL)
    IN  Join([k \in 1..Len(parts) |-> prefix \o parts[k]], NL)

RECURSIVE to_file_tree(_, _)
RECURSIVE DirectoryLines(_, _)
\* the two entries pushed for each of self.directories from the i-th on
DirectoryLines(dirs, i) ==
    IF i > Len(dirs) THEN <<>>
    ELSE LET sub == to_file_tree(dirs[i], FALSE)
         IN  (IF i = Len(dirs)
              THEN <<LAST \o dirs[i].path, PrefixLines(sub, INDENT)>>
              ELSE <<BRANCH \o dirs[i].path, PrefixLines(sub, CONT)>>)
             \o DirectoryLines(dirs, i + 1)

to_file_tree(t, root) ==
    Join((IF root THEN <<t.path>> ELSE <<>>)
         \o FileLines(t.files)
         \o DirectoryLines(t.directories, 1), NL)

(***************************************************************************)
(* new_from_file_tree                                                      *)
(***************************************************************************)
\* .replace("│   ", "").replace("├── ", "").replace("└── ", "")
StripConnectors(line) ==
    Replace(Replace(Replace(line, CONT, <<>>), BRANCH, <<>>), LAST, <<>>)

\* a faulty variant of is_line_a_file: the runs of spaces are not counted
is_line_a_file_NoTab(line) ==
    HasPostFix(line) /\ CountMatches(line, <<VBAR>>) = 0

is_line_a_file(line) ==
    LET depth_by_poll == CountMatches(line, <<VBAR>>)
        depth_by_tab  == CountMatches(line, <<SP, SP, SP>>)
        depth         == depth_by_poll + depth_by_tab
    IN  HasPostFix(line) /\ depth = 0

\* line.starts_with("├──") || line.starts_with("└──")
StartsBranch(line) ==
    \/ StartsWith(line, <<TEE, HBAR, HBAR>>)
    \/ StartsWith(line, <<ELL, HBAR, HBAR>>)

\* a faulty variant of ForwardLines: the loop never breaks, so the block
\* runs to the last line
ForwardLines_NoBreak(lines, k) ==
    [j \in 1..(IF k > Len(lines) THEN 0 ELSE Len(lines) - k + 1) |->
        IF StartsWith(lines[k + j - 1], CONT)
        THEN ReplaceFirst(lines[k + j - 1], CONT, <<>>)
        ELSE lines[k + j - 1]]

\* the inner loop over file_tree_lines[i + 1..]: the lines collected for the
\* directory whose header is line i, from line k on
RECURSIVE ForwardLines(_, _)
ForwardLines(lines, k) ==
    IF k > Len(lines) THEN <<>>
    ELSE LET forward_line == lines[k]
             depth == CountMatches(forward_line, <<VBAR>>)
         IN  IF StartsBranch(forward_line) /\ depth = 0 THEN <<>>
             ELSE <<IF StartsWith(forward_line, CONT)
                    THEN ReplaceFirst(forward_line, CONT, <<>>)
                    ELSE forward_line>> \o ForwardLines(lines, k + 1)

\* directory_lines of the block whose header is line i: the header with its
\* connector removed, then the collected lines, all with one indentation
\* removed when the first collected line starts with one
BlockLines(lines, i) ==
    LET header == Replace(Replace(lines[i], BRANCH, <<>>), LAST, <<>>)
        directory_lines == <<header>> \o ForwardLines(lines, i + 1)
    IN  IF Len(directory_lines) >= 2 /\ StartsWith(directory_lines[2], INDENT)
        THEN [k \in 1..Len(directory_lines) |->
                 ReplaceFirst(directory_lines[k], INDENT, <<>>)]
        ELSE directory_lines

\* the number of lines the block at i marks in avoid_lines_index
BlockSpan(lines, i) == 1 + Len(ForwardLines(lines, i + 1))

RECURSIVE new_from_file_tree(_)
RECURSIVE ParseBlocks(_, _, _)
\* the third loop: the directories parsed from line i on, avoid being
\* avoid_lines_index
ParseBlocks(lines, i, avoid) ==
    IF i > Len(lines) THEN <<>>
    ELSE IF i \in avoid THEN ParseBlocks(lines, i + 1, avoid)
    ELSE IF StartsBranch(lines[i])
    THEN <<new_from_file_tree(Join(BlockLines(lines, i), NL))>>
         \o ParseBlocks(lines, i + 1,
                        avoid \cup (i..(i + BlockSpan(lines, i) - 1)))
    ELSE ParseBlocks(lines, i + 1, avoid)

new_from_file_tree(file_tree) ==
    LET all_lines == Lines(file_tree)
    IN  IF Len(all_lines) = 0 THEN Panic    \* file_tree_lines[0]
        ELSE
        LET root_path == StripConnectors(all_lines[1])
            rest == Tail(all_lines)
            file_lines == SelectSeq(rest, is_line_a_file)
            file_tree_lines == SelectSeq(rest, LAMBDA l : ~is_line_a_file(l))
            directories == ParseBlocks(file_tree_lines, 1, {})
        IN  IF \E k \in 1..Len(directories) : IsPanic(directories[k])
            THEN Panic
            ELSE [path |-> root_path,
                  files |-> [k \in 1..Len(file_lines) |->
                                StripConnectors(file_lines[k])],
                  directories |-> directories]

(***************************************************************************)
(* The codec as a state machine: format a tree, parse the text, format the *)
(* parsed tree again.                                                      *)
(***************************************************************************)
\* bound: the number of entries (files and directories, at any depth) of a
\* tree besides its root
MaxEntries == 4

RootLabels == { <<"r">> }
Labels     == { <<"d">>, <<"e">> }
FileNames  == { <<"a", ".", "t", "s">>, <<"b", ".", "t", "s">>, <<"n">> }

\* the sequences of k file names
FileSeqs(k) == [1..k -> FileNames]

RECURSIVE Forests(_)
\* the FileTrees labelled from ls that hold exactly n entries
NodesOver(ls, n) ==
    UNION { { [path |-> l, files |-> fs, directories |-> ds] :
                l \in ls, fs \in FileSeqs(k), ds \in Forests(n - k) } :
            k \in 0..n }

\* the sequences of FileTrees that make m entries, each tree counting as one
\* entry plus the entries it holds
Forests(m) ==
    IF m = 0 THEN { <<>> }
    ELSE UNION { { <<t>> \o rest : t \in NodesOver(Labels, j - 1),
                                   rest \in Forests(m - j) } : j \in 1..m }

Trees == UNION { NodesOver(RootLabels, n) : n \in 0..MaxEntries }

None == <<>>

InitCodec ==
    /\ op = "codec"
    /\ pc = "start"
    /\ tree \in Trees
    /\ text = None
    /\ parsed = None
    /\ text2 = None
    /\ input = None
    /\ stack = None
    /\ result = None
    /\ calls = 0
    /\ run = None
    /\ fsys = None

\* text = tree.to_file_tree(true)
Format ==
    /\ op = "codec"
    /\ pc = "start"
    /\ text' = to_file_tree(tree, TRUE)
    /\ pc' = "formatted"
    /\ UNCHANGED <<op, tree, parsed, text2, input, stack, result, calls, run, fsys>>

\* parsed = FileTree::new_from_file_tree(text)
Parse ==
    /\ op = "codec"
    /\ pc = "formatted"
    /\ parsed' = new_from_file_tree(text)
    /\ pc' = IF IsPanic(parsed') THEN "panicked" ELSE "parsed"
    /\ UNCHANGED <<op, tree, text, text2, input, stack, result, calls, run, fsys>>

\* text2 = parsed.to_file_tree(true)
Reformat ==
    /\ op = "codec"
    /\ pc = "parsed"
    /\ text2' = to_file_tree(parsed, TRUE)
    /\ pc' = "reformatted"
    /\ UNCHANGED <<op, tree, text, parsed, input, stack, result, calls, run, fsys>>

NextCodec == Format \/ Parse \/ Reformat

SpecCodec == InitCodec /\ [][NextCodec]_vars

(***************************************************************************)
(* new_from_string_vector, one call frame per recursive call               *)
(***************************************************************************)
\* bound: the number of paths of an input vector
MaxPaths == 3
\* bound: the depth of the call stack at which the run is abandoned
MaxDepth == 6

SLASH == "/"

\* values.sort_by(|a, b| a.len().cmp(&b.len())): a stable sort, so strings
\* of equal length keep their order
RECURSIVE InsertByLen(_, _)
InsertByLen(sorted, v) ==
    IF Len(sorted) = 0 THEN <<v>>
    ELSE IF Len(v) < Len(sorted[1]) THEN <<v>> \o sorted
    ELSE <<sorted[1]>> \o InsertByLen(Tail(sorted), v)

RECURSIVE SortByLen(_)
SortByLen(values) ==
    IF Len(values) = 0 THEN <<>>
    ELSE InsertByLen(SortByLen(SubSeq(values, 1, Len(values) - 1)),
                     values[Len(values)])

\* the root path of a call: the first value after the sort, without its
\* trailing slash
RootPathOf(values) ==
    LET root_path == SortByLen(values)[1]
    IN  IF EndsWith(root_path, <<SLASH>>)
        THEN SubSeq(root_path, 1, Len(root_path) - 1)
        ELSE root_path

\* the locals of a call entered with `values`, before the loop's first turn
NewFrame(values) ==
    [received    |-> values,
     root_path   |-> RootPathOf(values),
     values      |-> Tail(SortByLen(values)),
     idx         |-> 1,
     files       |-> <<>>,
     directories |-> <<>>]

\* entry.replace(&root_path, "").split("/").filter(|&x| x != "").collect()
EntrySplit(entry, root_path) ==
    SelectSeq(Split(Replace(entry, root_path, <<>>), SLASH),
              LAMBDA x : x # <<>>)

\* format!("{}/{}", root_path, directory)
ChildPath(root_path, directory) == root_path \o <<SLASH>> \o directory

\* next_root_dix: the child path, with a slash put in front when it does not
\* start with one
NextRootDix(root_path, directory) ==
    LET next_root_dix == ChildPath(root_path, directory)
    IN  IF ~StartsWith(next_root_dix, <<SLASH>>)
        THEN <<SLASH>> \o next_root_dix
        ELSE next_root_dix

\* directories.iter().any(|x| x.path == format!("{}/{}", root_path, directory))
HasDirectory(directories, root_path, directory) ==
    \E k \in 1..Len(directories) :
        directories[k].path = ChildPath(root_path, directory)

\* the vector handed to the recursive call: the remaining values and the
\* pushed child path, filtered by containment of the directory name
RecursiveValues(values, root_path, directory) ==
    SelectSeq(Append(values, NextRootDix(root_path, directory)),
              LAMBDA x : Contains(x, directory))

Top == stack[Len(stack)]

SetTop(f) == [stack EXCEPT ![Len(stack)] = f]

InLoop ==
    /\ op = "builder"
    /\ pc = "running"
    /\ Top.idx <= Len(Top.values)

TopEntry == Top.values[Top.idx]

TopSplit == EntrySplit(TopEntry, Top.root_path)

\* FileTree::new_from_string_vector(input): the assert, then the sort and
\* the removal of the root path
CallBuilder ==
    /\ op = "builder"
    /\ pc = "start"
    /\ IF Len(input) > 0
       THEN /\ stack' = <<NewFrame(input)>>
            /\ pc' = "running"
            /\ calls' = 1
       ELSE /\ pc' = "panicked"      \* assert!(values.len() > 0)
            /\ UNCHANGED <<stack, calls>>
    /\ UNCHANGED <<op, tree, text, parsed, text2, input, result, run, fsys>>

\* entry_split.len() == 1: files.push(entry)
PushFile ==
    /\ InLoop
    /\ Len(TopSplit) = 1
    /\ stack' = SetTop([Top EXCEPT !.files = Append(@, TopEntry),
                                   !.idx = @ + 1])
    /\ UNCHANGED <<op, pc, tree, text, parsed, text2, input, result, calls, run, fsys>>

\* entry_split is empty: entry_split[0] is out of bounds
IndexPanic ==
    /\ InLoop
    /\ Len(TopSplit) = 0
    /\ pc' = "panicked"
    /\ UNCHANGED <<op, tree, text, parsed, text2, input, stack, result, calls, run, fsys>>

\* the directory is already in the directories vector
SkipDirectory ==
    /\ InLoop
    /\ Len(TopSplit) > 1
    /\ HasDirectory(Top.directories, Top.root_path, TopSplit[1])
    /\ stack' = SetTop([Top EXCEPT !.idx = @ + 1])
    /\ UNCHANGED <<op, pc, tree, text, parsed, text2, input, result, calls, run, fsys>>

\* the directory is new: the recursive call
Recurse ==
    /\ InLoop
    /\ Len(TopSplit) > 1
    /\ ~HasDirectory(Top.directories, Top.root_path, TopSplit[1])
    /\ Len(stack) < MaxDepth
    /\ stack' = Append(stack,
           NewFrame(RecursiveValues(Top.values, Top.root_path, TopSplit[1])))
    /\ calls' = calls + 1
    /\ UNCHANGED <<op, pc, tree, text, parsed, text2, input, result, run, fsys>>

\* the recursive call that would make the stack deeper than MaxDepth
DepthExceeded ==
    /\ InLoop
    /\ Len(TopSplit) > 1
    /\ ~HasDirectory(Top.directories, Top.root_path, TopSplit[1])
    /\ Len(stack) >= MaxDepth
    /\ pc' = "depth_exceeded"
    /\ UNCHANGED <<op, tree, text, parsed, text2, input, stack, result, calls, run, fsys>>

\* return FileTree { path: root_path, files, directories }
Return ==
    /\ op = "builder"
    /\ pc = "running"
    /\ Top.idx > Len(Top.values)
    /\ LET returned == [path |-> Top.root_path, files |-> Top.files,
                        directories |-> Top.directories]
           caller == stack[Len(stack) - 1]
       IN  IF Len(stack) = 1
           THEN /\ result' = returned
                /\ pc' = "done"
                /\ stack' = <<>>
           ELSE /\ stack' = [k \in 1..(Len(stack) - 1) |->
                               IF k = Len(stack) - 1
                               THEN [caller EXCEPT
                                       !.directories = Append(@, returned),
                                       !.idx = @ + 1]
                               ELSE stack[k]]
                /\ UNCHANGED <<result, pc>>
    /\ UNCHANGED <<op, tree, text, parsed, text2, input, calls, run, fsys>>

\* the paths an input vector is drawn from
PathUniverse ==
    { <<"/", "r">>,
      <<"/", "r", "/">>,
      <<"r">>,
      <<"/", "r", "/", "a", ".", "t", "s">>,
      <<"/", "r", "/", "d">>,
      <<"/", "r", "/", "d", ".", "t", "s">>,
      <<"/", "r", "/", "d", "/", "a", ".", "t", "s">>,
      <<"/", "r", "/", "d", "/", "b", ".", "t", "s">>,
      <<"/", "r", "/", "e", "/", "d", ".", "t", "s">>,
      <<"r", "/", "d", "/", "a", ".", "t", "s">>,
      <<"r", "/", "d", "/", "b", ".", "t", "s">> }

\* the vectors of at most MaxPaths distinct paths
Inputs ==
    UNION { { v \in [1..n -> PathUniverse] :
                \A i, j \in 1..n : i # j => v[i] # v[j] } : n \in 0..MaxPaths }

InitBuilder ==
    /\ op = "builder"
    /\ pc = "start"
    /\ input \in Inputs
    /\ stack = <<>>
    /\ result = None
    /\ calls = 0
    /\ tree = None
    /\ text = None
    /\ parsed = None
    /\ text2 = None
    /\ run = None
    /\ fsys = None

NextBuilder ==
    \/ CallBuilder
    \/ PushFile
    \/ IndexPanic
    \/ SkipDirectory
    \/ Recurse
    \/ DepthExceeded
    \/ Return

SpecBuilder == InitBuilder /\ [][NextBuilder]_vars

(***************************************************************************)
(* Properties of the codec                                                 *)
(***************************************************************************)
\* C1: text round-trip.  For every tree, parsing the text that to_file_tree
\* produced and formatting the parsed tree again gives that text back,
\* character for character.
C1_TextRoundTrip ==
    /\ pc # "panicked" \/ op # "codec"
    /\ (op = "codec" /\ pc = "reformatted") => text2 = text

(***************************************************************************)
(* Properties of new_from_string_vector                                    *)
(***************************************************************************)
\* a path of the vector is the root when it is the root path, with or
\* without its trailing slash
IsRootOf(p, v) == p = RootPathOf(v) \/ p = RootPathOf(v) \o <<SLASH>>

\* the vector is not empty, names its root once, and every other path lies
\* under that root
UnderOneRoot(v) ==
    /\ Len(v) > 0
    /\ Cardinality({k \in 1..Len(v) : IsRootOf(v[k], v)}) = 1
    /\ \A k \in 1..Len(v) :
          ~IsRootOf(v[k], v) =>
              /\ StartsWith(v[k], RootPathOf(v) \o <<SLASH>>)
              /\ v[k][Len(v[k])] # SLASH

\* the paths of the vector that are directories: the root, and every path
\* with another path of the vector below it
IsDirectoryIn(p, v) ==
    \/ IsRootOf(p, v)
    \/ \E k \in 1..Len(v) : StartsWith(v[k], p \o <<SLASH>>)

InputFiles(v) == { v[k] : k \in { j \in 1..Len(v) : ~IsDirectoryIn(v[j], v) } }

InputDirectories(v) ==
    { v[k] : k \in { j \in 1..Len(v) : IsDirectoryIn(v[j], v) /\ ~IsRootOf(v[j], v) } }
    \cup { RootPathOf(v) }

RECURSIVE AllFiles(_)
RECURSIVE AllFilesOf(_, _)
\* the files of the directories from the i-th on, depth first
AllFilesOf(dirs, i) ==
    IF i > Len(dirs) THEN <<>>
    ELSE AllFiles(dirs[i]) \o AllFilesOf(dirs, i + 1)

\* the concatenation of all nodes' files, depth first
AllFiles(t) == t.files \o AllFilesOf(t.directories, 1)

RECURSIVE AllPaths(_)
RECURSIVE AllPathsOf(_, _)
AllPathsOf(dirs, i) ==
    IF i > Len(dirs) THEN <<>>
    ELSE AllPaths(dirs[i]) \o AllPathsOf(dirs, i + 1)

\* the paths of all nodes, depth first
AllPaths(t) == <<t.path>> \o AllPathsOf(t.directories, 1)

Occurrences(x, ss) == Cardinality({ k \in 1..Len(ss) : ss[k] = x })

\* C2: coverage.  For a vector of paths under one root, the returned tree
\* holds every input file exactly once among all nodes' files and nothing
\* else, and every input directory is the path of exactly one node.
C2_Coverage ==
    (op = "builder" /\ pc = "done" /\ UnderOneRoot(input)) =>
        /\ \A f \in InputFiles(input) : Occurrences(f, AllFiles(result)) = 1
        /\ \A k \in 1..Len(AllFiles(result)) :
              AllFiles(result)[k] \in InputFiles(input)
        /\ \A d \in InputDirectories(input) :
              Occurrences(d, AllPaths(result)) = 1

\* C3: termination.  On a non-empty vector of paths under one root the call
\* returns: the recursion is never abandoned at MaxDepth nested calls.
C3_Terminates ==
    (op = "builder" /\ UnderOneRoot(input)) => pc # "depth_exceeded"

\* C3, the reason it gives: every recursive call receives a vector strictly
\* shorter than the one its caller received.
C3_StrictlySmaller ==
    op = "builder" =>
        \A k \in 2..Len(stack) :
            Len(stack[k].received) < Len(stack[k - 1].received)

(***************************************************************************)
(* new_from_directory, to_file_list                                        *)
(***************************************************************************)
\* the part of path p below directory dir, empty when p is not below it
Below(p, dir) ==
    IF StartsWith(p, dir \o <<SLASH>>)
    THEN SubSeq(p, Len(dir) + 2, Len(p))
    ELSE <<>>

\* the names of the sub-directories of dir that hold a file of the listing,
\* in the order the listing meets them
RECURSIVE SubDirectories(_, _, _)
SubDirectories(dir, listing, seen) ==
    IF Len(listing) = 0 THEN <<>>
    ELSE LET segments == Split(Below(listing[1], dir), SLASH)
         IN  IF Len(segments) > 1 /\ segments[1] \notin seen
             THEN <<segments[1]>>
                  \o SubDirectories(dir, Tail(listing), seen \cup {segments[1]})
             ELSE SubDirectories(dir, Tail(listing), seen)

\* FileTree::new_from_directory(path) when every read_dir and metadata call
\* succeeds; listing holds the full paths of the files on the disk, in the
\* order read_dir yields them.  The files of a node are full entry paths.
RECURSIVE new_from_directory(_, _)
new_from_directory(path, listing) ==
    LET names == SubDirectories(path, listing, {})
    IN  [path |-> path,
         files |-> SelectSeq(listing, LAMBDA p :
                      /\ Below(p, path) # <<>>
                      /\ ~Contains(Below(p, path), <<SLASH>>)),
         directories |-> [k \in 1..Len(names) |->
             new_from_directory(path \o <<SLASH>> \o names[k],
                 SelectSeq(listing, LAMBDA p :
                     Below(p, path \o <<SLASH>> \o names[k]) # <<>>))]]

IsWhite(c) == c = SP \/ c = NL

\* str::trim_start().trim_end()
RECURSIVE TrimStart(_)
TrimStart(s) ==
    IF Len(s) > 0 /\ IsWhite(s[1]) THEN TrimStart(Tail(s)) ELSE s

RECURSIVE TrimEnd(_)
TrimEnd(s) ==
    IF Len(s) > 0 /\ IsWhite(s[Len(s)])
    THEN TrimEnd(SubSeq(s, 1, Len(s) - 1))
    ELSE s

Trim(s) == TrimEnd(TrimStart(s))

RECURSIVE to_file_list(_, _)
RECURSIVE FileListOf(_, _, _)
FileListOf(dirs, i, prefix) ==
    IF i > Len(dirs) THEN <<>>
    ELSE to_file_list(dirs[i], prefix) \o FileListOf(dirs, i + 1, prefix)

\* the node's own path, then its files, then the lists of its directories
to_file_list(t, prefix) ==
    <<Trim(prefix \o t.path)>>
    \o [k \in 1..Len(t.files) |-> Trim(prefix \o t.files[k])]
    \o FileListOf(t.directories, 1, prefix)

(***************************************************************************)
(* plex_course_sym_link                                                    *)
(***************************************************************************)
\* bound: the number of files on the disk the tree is read from
MaxDiskFiles == 2
\* bound: the number of create_dir_all / symlink calls that fail for a
\* reason outside the model (permissions, a full disk) during the two runs
MaxFaults == 1

Str_lib    == <<"l", "i", "b">>
Str_one    == <<"o", "n", "e">>
Str_two    == <<"t", "w", "o">>
Str_on     == <<"o", "n">>
Str_mp4    == <<".", "m", "p", "4">>
Str_Season == <<"S", "e", "a", "s", "o", "n", SP>>
Str_dash   == <<SP, "-", SP>>

\* the destination argument
destination == <<"d", "e", "s", "t">>

\* the source root
LibRoot == <<SLASH>> \o Str_lib

PathOf(segments) == Join(segments, SLASH)

File_one_a   == PathOf(<< <<>>, Str_lib, Str_one, <<"a">> \o Str_mp4 >>)
File_one_b   == PathOf(<< <<>>, Str_lib, Str_one, <<"b">> \o Str_mp4 >>)
File_two_c   == PathOf(<< <<>>, Str_lib, Str_two, <<"c">> \o Str_mp4 >>)
File_two_b_c == PathOf(<< <<>>, Str_lib, Str_two, <<"b", SP, "c">> \o Str_mp4 >>)
File_one_two_a == PathOf(<< <<>>, Str_lib, Str_one, Str_two, <<"a">> \o Str_mp4 >>)
File_on_a    == PathOf(<< <<>>, Str_lib, Str_on, <<"a">> \o Str_mp4 >>)
File_one_n   == PathOf(<< <<>>, Str_lib, Str_one, <<"n", ".", "t", "x", "t">> >>)

DiskFiles ==
    { File_one_a, File_two_c, File_two_b_c, File_one_two_a, File_on_a,
      File_one_n }

\* the disk of the scenario: /lib/one with a.mp4 and b.mp4, /lib/two with
\* c.mp4
ScenarioListing == <<File_one_a, File_one_b, File_two_c>>

\* the listings: the scenario, and every order of at most MaxDiskFiles files
Listings ==
    { ScenarioListing } \cup
    UNION { { v \in [1..n -> DiskFiles] :
                \A i, j \in 1..n : i # j => v[i] # v[j] } : n \in 0..MaxDiskFiles }

Digit(d) ==
    CASE d = 0 -> "0" [] d = 1 -> "1" [] d = 2 -> "2" [] d = 3 -> "3"
      [] d = 4 -> "4" [] d = 5 -> "5" [] d = 6 -> "6" [] d = 7 -> "7"
      [] d = 8 -> "8" [] d = 9 -> "9"

\* format!("{}", n)
RECURSIVE ToDecimal(_)
ToDecimal(n) ==
    IF n < 10 THEN <<Digit(n)>>
    ELSE ToDecimal(n \div 10) \o <<Digit(n % 10)>>

\* format!("{:02}", n)
Pad2(n) == IF n < 10 THEN <<"0">> \o ToDecimal(n) ELSE ToDecimal(n)

\* the filter of the file list: no trailing slash, and a recognised suffix
Qualifies(x) == ~EndsWith(x, <<SLASH>>) /\ HasPostFix(x)

FilteredFileList(t) == SelectSeq(to_file_list(t, <<>>), Qualifies)

\* file_name_array[file_name_array.len() - 2]: the segment before the last
SeasonOf(file) ==
    LET file_name_array == Split(file, SLASH)
    IN  file_name_array[Len(file_name_array) - 1]

\* season_set: the distinct seasons of the file list
SeasonSet(file_list) == { SeasonOf(file_list[k]) : k \in 1..Len(file_list) }

\* the orders in which season_set.into_iter() may yield its elements
IterationOrders(set) ==
    { v \in [1..Cardinality(set) -> set] :
        \A i, j \in 1..Cardinality(set) : i # j => v[i] # v[j] }

\* a faulty variant of InsertSeason: the comparison is the wrong way round
RECURSIVE InsertSeason_Descending(_, _)
InsertSeason_Descending(sorted, v) ==
    IF Len(sorted) = 0 THEN <<v>>
    ELSE IF StrLess(sorted[1], v) THEN <<v>> \o sorted
    ELSE <<sorted[1]>> \o InsertSeason_Descending(Tail(sorted), v)

RECURSIVE InsertSeason(_, _)
InsertSeason(sorted, v) ==
    IF Len(sorted) = 0 THEN <<v>>
    ELSE IF StrLess(v, sorted[1]) THEN <<v>> \o sorted
    ELSE <<sorted[1]>> \o InsertSeason(Tail(sorted), v)

RECURSIVE SortedFrom(_, _)
SortedFrom(v, n) ==
    IF n = 0 THEN <<>> ELSE InsertSeason(SortedFrom(v, n - 1), v[n])

\* a faulty variant of SortSeasons: the sort is left out
SortSeasons_None(season_vector) == season_vector

\* season_vector.sort_by(|a, b| a.cmp(b))
SortSeasons(season_vector) == SortedFrom(season_vector, Len(season_vector))

\* a[a.len() - 1]: the file name of a split path
FileNameOf(file) == file[Len(file)]

RECURSIVE InsertByFileName(_, _)
InsertByFileName(sorted, v) ==
    IF Len(sorted) = 0 THEN <<v>>
    ELSE IF StrLess(FileNameOf(v), FileNameOf(sorted[1])) THEN <<v>> \o sorted
    ELSE <<sorted[1]>> \o InsertByFileName(Tail(sorted), v)

RECURSIVE SortedByFileNameFrom(_, _)
SortedByFileNameFrom(v, n) ==
    IF n = 0 THEN <<>>
    ELSE InsertByFileName(SortedByFileNameFrom(v, n - 1), v[n])

\* a faulty variant of SortByFileName: the sort is left out
SortByFileName_None(season_file_list) == season_file_list

\* season_file_list.sort_by(|a, b| a[a.len() - 1].cmp(b[b.len() - 1])): a
\* stable sort, so files with equal names keep the order of the file list
SortByFileName(season_file_list) ==
    SortedByFileNameFrom(season_file_list, Len(season_file_list))

\* file_list.iter().filter(|file| file.contains(season))
SeasonMembers(file_list, season) ==
    SelectSeq(file_list, LAMBDA file : Contains(file, season))

\* the season's files, each split at the slashes, sorted by file name
SeasonFileList(file_list, season) ==
    LET members == SeasonMembers(file_list, season)
    IN  SortByFileName([k \in 1..Len(members) |-> Split(members[k], SLASH)])

\* a faulty variant of SeasonName: the ordinal is padded to two digits
SeasonName_Padded(i, season) == Str_Season \o Pad2(i + 1) \o Str_dash \o season

\* format!("Season {} - {}", i + 1, season)
SeasonName(i, season) == Str_Season \o ToDecimal(i + 1) \o Str_dash \o season

\* a faulty variant of EpisodeName: the season number is always 01
EpisodeName_FirstSeason(i, j, file) ==
    <<"S">> \o Pad2(1) \o <<"E">> \o Pad2(j + 1) \o Str_dash
    \o Replace(FileNameOf(file), <<SP>>, <<".">>)

\* format!("S{:02}E{:02} - {}", i + 1, j + 1, file_name) with the spaces of
\* file_name replaced by dots
EpisodeName(i, j, file) ==
    <<"S">> \o Pad2(i + 1) \o <<"E">> \o Pad2(j + 1) \o Str_dash
    \o Replace(FileNameOf(file), <<SP>>, <<".">>)

\* format!("{}/{}", destination, season_name)
SeasonDirectory(dest, season_name) == dest \o <<SLASH>> \o season_name

\* format!("{}/{}/{}", destination, season_name, episode_name)
EpisodeLink(dest, season_name, episode_name) ==
    dest \o <<SLASH>> \o season_name \o <<SLASH>> \o episode_name

\* a faulty variant of AfterCreateDir: a failed create_dir_all ends the run
AfterCreateDir_Abort(created) == IF created THEN "episodes" ELSE "done"

\* where the run goes after create_dir_all returned: on to the episodes of
\* the season, whether or not the directory was created
AfterCreateDir(created) == "episodes"

\* the directories create_dir_all makes: the path and every ancestor of it
Ancestors(path) ==
    LET segments == Split(path, SLASH)
    IN  { PathOf(SubSeq(segments, 1, k)) : k \in 1..Len(segments) }

ParentOf(path) ==
    LET segments == Split(path, SLASH)
    IN  PathOf(SubSeq(segments, 1, Len(segments) - 1))

\* fs::create_dir_all(path): an existing directory is no error
CreateDirAll(fs, path, created) ==
    IF created THEN [fs EXCEPT !.dirs = @ \cup Ancestors(path)] ELSE fs

\* whether symlink(target, link) succeeds: the parent directory exists and
\* nothing is at link yet
CanLink(fs, link) ==
    /\ ParentOf(link) \in fs.dirs
    /\ link \notin fs.dirs
    /\ \A l \in fs.links : l.link # link

\* std::os::unix::fs::symlink(target, link)
Symlink(fs, target, link, linked) ==
    IF linked
    THEN [fs EXCEPT !.links = @ \cup {[link |-> link, target |-> target]}]
    ELSE fs

\* the locals of plex_course_sym_link at its start; `pass` counts the runs,
\* `previous` keeps the groups of the run before, `faults` the failures of
\* the file system so far
FreshRun(pass, previous, faults) ==
    [pass |-> pass, previous |-> previous, faults |-> faults,
     file_list |-> <<>>, season_vector |-> <<>>, i |-> 0, j |-> 0,
     season_file_list |-> <<>>, season_name |-> <<>>,
     groups |-> <<>>, log |-> <<>>]

InitLink ==
    /\ op = "linker"
    /\ pc = "start"
    /\ input \in Listings
    /\ tree = new_from_directory(LibRoot, input)
    /\ run = FreshRun(1, <<>>, 0)
    /\ fsys = [dirs |-> {}, links |-> {}]
    /\ text = None
    /\ parsed = None
    /\ text2 = None
    /\ stack = None
    /\ result = None
    /\ calls = 0

\* the file list: to_file_list, filtered
Flatten ==
    /\ op = "linker"
    /\ pc = "start"
    /\ run' = [run EXCEPT !.file_list = FilteredFileList(tree)]
    /\ pc' = "listed"
    /\ UNCHANGED <<op, tree, text, parsed, text2, input, stack, result, calls, fsys>>

\* season_set, season_vector and its sort; the HashSet yields its elements
\* in an order of its own
CollectSeasons ==
    /\ op = "linker"
    /\ pc = "listed"
    /\ IF \E k \in 1..Len(run.file_list) :
              Len(Split(run.file_list[k], SLASH)) < 2
       THEN /\ pc' = "panicked"      \* file_name_array.len() - 2
            /\ UNCHANGED run
       ELSE /\ \E order \in IterationOrders(SeasonSet(run.file_list)) :
                  run' = [run EXCEPT !.season_vector = SortSeasons(order),
                                     !.i = 0]
            /\ pc' = "seasons"
    /\ UNCHANGED <<op, tree, text, parsed, text2, input, stack, result, calls, fsys>>

\* one turn of the loop over the seasons, up to the loop over its files:
\* the season's file list, its sort, the season name and create_dir_all
BeginSeason ==
    /\ op = "linker"
    /\ pc = "seasons"
    /\ run.i < Len(run.season_vector)
    /\ \E created \in BOOLEAN :
         /\ ~created => run.faults < MaxFaults
         /\ LET season == run.season_vector[run.i + 1]
                season_file_list == SeasonFileList(run.file_list, season)
                season_name == SeasonName(run.i, season)
                path == SeasonDirectory(destination, season_name)
            IN  /\ fsys' = CreateDirAll(fsys, path, created)
                /\ run' = [run EXCEPT
                     !.season_file_list = season_file_list,
                     !.season_name = season_name,
                     !.j = 0,
                     !.faults = IF created THEN @ ELSE @ + 1,
                     !.groups = Append(@,
                         [key |-> season, ordinal |-> run.i + 1,
                          files |-> [k \in 1..Len(season_file_list) |->
                                        PathOf(season_file_list[k])]]),
                     !.log = Append(@,
                         [call |-> "create_dir_all", path |-> path,
                          target |-> <<>>, i |-> run.i, j |-> 0,
                          ok |-> created])]
                /\ pc' = AfterCreateDir(created)
    /\ UNCHANGED <<op, tree, text, parsed, text2, input, stack, result, calls>>

\* one turn of the loop over the season's files: the symlink call
LinkEpisode ==
    /\ op = "linker"
    /\ pc = "episodes"
    /\ run.j < Len(run.season_file_list)
    /\ \E works \in BOOLEAN :
         /\ ~works => run.faults < MaxFaults
         /\ LET file == run.season_file_list[run.j + 1]
                episode_name == EpisodeName(run.i, run.j, file)
                link == EpisodeLink(destination, run.season_name, episode_name)
                target == Join(file, SLASH)
                linked == works /\ CanLink(fsys, link)
            IN  /\ fsys' = Symlink(fsys, target, link, linked)
                /\ run' = [run EXCEPT
                     !.j = @ + 1,
                     !.faults = IF works THEN @ ELSE @ + 1,
                     !.log = Append(@,
                         [call |-> "symlink", path |-> link,
                          target |-> target, i |-> run.i, j |-> run.j,
                          ok |-> linked])]
    /\ UNCHANGED <<op, pc, tree, text, parsed, text2, input, stack, result, calls>>

\* the season's files are done: the next season
EndSeason ==
    /\ op = "linker"
    /\ pc = "episodes"
    /\ run.j >= Len(run.season_file_list)
    /\ run' = [run EXCEPT !.i = @ + 1]
    /\ pc' = "seasons"
    /\ UNCHANGED <<op, tree, text, parsed, text2, input, stack, result, calls, fsys>>

\* the seasons are done: plex_course_sym_link returns
Finish ==
    /\ op = "linker"
    /\ pc = "seasons"
    /\ run.i >= Len(run.season_vector)
    /\ pc' = "done"
    /\ UNCHANGED <<op, tree, text, parsed, text2, input, stack, result, calls, run, fsys>>

\* plex_course_sym_link is called a second time, on a clone of the tree and
\* with the same destination
RunAgain ==
    /\ op = "linker"
    /\ pc = "done"
    /\ run.pass = 1
    /\ run' = FreshRun(2, run.groups, run.faults)
    /\ pc' = "start"
    /\ UNCHANGED <<op, tree, text, parsed, text2, input, stack, result, calls, fsys>>

NextLink ==
    \/ Flatten
    \/ CollectSeasons
    \/ BeginSeason
    \/ LinkEpisode
    \/ EndSeason
    \/ Finish
    \/ RunAgain

SpecLink == InitLink /\ [][NextLink]_vars

(***************************************************************************)
(* Properties of plex_course_sym_link                                      *)
(***************************************************************************)
LinkDone == op = "linker" /\ pc = "done"

\* the calls of one kind in the log of the run, in order
CallsOf(kind) == SelectSeq(run.log, LAMBDA e : e.call = kind)

\* the scenario ran once with no failure of the file system
ScenarioDone ==
    /\ LinkDone
    /\ input = ScenarioListing
    /\ run.pass = 1
    /\ run.faults = 0

Lit_dest_1_a ==
    <<"d", "e", "s", "t", "/", "S", "e", "a", "s", "o", "n", " ", "1",
      " ", "-", " ", "o", "n", "e", "/", "S", "0", "1", "E", "0", "1",
      " ", "-", " ", "a", ".", "m", "p", "4">>
Lit_dest_1_b ==
    <<"d", "e", "s", "t", "/", "S", "e", "a", "s", "o", "n", " ", "1",
      " ", "-", " ", "o", "n", "e", "/", "S", "0", "1", "E", "0", "2",
      " ", "-", " ", "b", ".", "m", "p", "4">>
Lit_dest_2_c_S01 ==
    <<"d", "e", "s", "t", "/", "S", "e", "a", "s", "o", "n", " ", "2",
      " ", "-", " ", "t", "w", "o", "/", "S", "0", "1", "E", "0", "1",
      " ", "-", " ", "c", ".", "m", "p", "4">>
Lit_dest_2_c_S02 ==
    <<"d", "e", "s", "t", "/", "S", "e", "a", "s", "o", "n", " ", "2",
      " ", "-", " ", "t", "w", "o", "/", "S", "0", "2", "E", "0", "1",
      " ", "-", " ", "c", ".", "m", "p", "4">>
Lit_lib_one_a ==
    <<"/", "l", "i", "b", "/", "o", "n", "e", "/", "a", ".", "m", "p",
      "4">>
Lit_lib_one_b ==
    <<"/", "l", "i", "b", "/", "o", "n", "e", "/", "b", ".", "m", "p",
      "4">>
Lit_lib_two_c ==
    <<"/", "l", "i", "b", "/", "t", "w", "o", "/", "c", ".", "m", "p",
      "4">>

\* C4, as the spec states it: in the scenario the links are S01E01 - a.mp4
\* and S01E02 - b.mp4 under Season 1 - one, and S01E01 - c.mp4 under
\* Season 2 - two.
C4_ScenarioAsStated ==
    ScenarioDone =>
        { [link |-> Lit_dest_1_a, target |-> Lit_lib_one_a],
          [link |-> Lit_dest_1_b, target |-> Lit_lib_one_b],
          [link |-> Lit_dest_2_c_S01, target |-> Lit_lib_two_c] }
        \subseteq fsys.links

\* C4, amended: in the scenario the links are exactly S01E01 - a.mp4 and
\* S01E02 - b.mp4 under Season 1 - one, and S02E01 - c.mp4 under
\* Season 2 - two, each pointing at the file's path under /lib.
C4_Scenario ==
    ScenarioDone =>
        fsys.links =
            { [link |-> Lit_dest_1_a, target |-> Lit_lib_one_a],
              [link |-> Lit_dest_1_b, target |-> Lit_lib_one_b],
              [link |-> Lit_dest_2_c_S02, target |-> Lit_lib_two_c] }

C4_Witness == ScenarioDone /\ Cardinality(fsys.links) = 3

\* the two digits of n < 100
TwoDigits(n) == <<Digit(n \div 10), Digit(n % 10)>>

\* f with every space replaced by a dot
Dotted(f) == [k \in 1..Len(f) |-> IF f[k] = SP THEN "." ELSE f[k]]

\* the last segment of a path
LastSegment(path) == Split(path, SLASH)[Len(Split(path, SLASH))]

\* destination/"Season g - k"
NamedDirectory(g, k) ==
    destination \o <<SLASH>> \o Str_Season \o ToDecimal(g) \o Str_dash \o k

\* destination/"Season g - k"/"S<g>E<j> - <f, dotted>"
NamedLink(g, k, j, f) ==
    NamedDirectory(g, k) \o <<SLASH, "S">> \o TwoDigits(g) \o <<"E">>
    \o TwoDigits(j) \o Str_dash \o Dotted(f)

\* the symlink calls of group g, in order
LinkCallsOf(g) ==
    SelectSeq(run.log, LAMBDA e : e.call = "symlink" /\ e.i = g - 1)

Lit_dest_2_b_c ==
    <<"d", "e", "s", "t", "/", "S", "e", "a", "s", "o", "n", " ", "2",
      " ", "-", " ", "t", "w", "o", "/", "S", "0", "2", "E", "0", "1",
      " ", "-", " ", "b", ".", "c", ".", "m", "p", "4">>

C6_PartialFailure ==
    /\ [](LinkDone =>
            \A k \in 1..Len(FilteredFileList(tree)) :
               \E n \in 1..Len(run.log) :
                  /\ run.log[n].call = "symlink"
                  /\ run.log[n].target = FilteredFileList(tree)[k]
                  /\ run.groups[run.log[n].i + 1].key
                        = SeasonOf(FilteredFileList(tree)[k]))
    /\ [][op = "linker" =>
            /\ fsys.dirs \subseteq fsys'.dirs
            /\ fsys.links \subseteq fsys'.links]_vars

\* a run in which create_dir_all failed for the first group and a file of
\* the second group was linked all the same
C6_Witness ==
    /\ LinkDone
    /\ run.pass = 1
    /\ Len(run.groups) = 2
    /\ ~CallsOf("create_dir_all")[1].ok
    /\ \E n \in 1..Len(run.log) :
          /\ run.log[n].call = "symlink"
          /\ run.log[n].i = 1
          /\ run.log[n].ok

\* C7: determinism.  The second run on the same tree produces the groups of
\* the first: the same keys with the same ordinals in the same order, and
\* in every group the same files in the same order.
C7_Deterministic ==
    (LinkDone /\ run.pass = 2) => run.groups = run.previous

\* a second run with two groups, one of them holding two files of the same
\* name
C7_Witness ==
    /\ LinkDone
    /\ run.pass = 2
    /\ Len(run.groups) = 2
    /\ \E g \in 1..Len(run.groups) :
          /\ Len(run.groups[g].files) = 2
          /\ LastSegment(run.groups[g].files[1])
                = LastSegment(run.groups[g].files[2])

\* a comes before b in the lexicographic order of the code points
LexLess(a, b) ==
    \/ Len(a) < Len(b) /\ SubSeq(b, 1, Len(a)) = a
    \/ \E k \in 1..Len(a) :
          /\ k <= Len(b)
          /\ SubSeq(a, 1, k - 1) = SubSeq(b, 1, k - 1)
          /\ CharCode(a[k]) < CharCode(b[k])

\* the name of the directory a file of the disk is in
ParentName(p) == Split(p, SLASH)[Len(Split(p, SLASH)) - 1]

\* the names of the directories of the media files of the disk
DiskKeys ==
    { ParentName(input[k]) : k \in { n \in 1..Len(input) : HasPostFix(input[n]) } }

\* C8: group ordinals.  The groups are the distinct keys in ascending
\* lexicographic order, the group at position p has ordinal p, and for the
\* keys two and one the result is one = 1, two = 2.
C8_GroupOrdinals ==
    LinkDone =>
        /\ { run.groups[g].key : g \in 1..Len(run.groups) } = DiskKeys
        /\ Len(run.groups) = Cardinality(DiskKeys)
        /\ \A g \in 1..Len(run.groups) : run.groups[g].ordinal = g
        /\ \A g \in 1..(Len(run.groups) - 1) :
              LexLess(run.groups[g].key, run.groups[g + 1].key)
        /\ DiskKeys = {Str_one, Str_two} =>
              /\ run.groups[1].key = Str_one
              /\ run.groups[2].key = Str_two

\* a run on a disk that lists a file of two before a file of one
C8_Witness ==
    /\ LinkDone
    /\ input = <<File_two_c, File_one_a>>
    /\ run.groups[1].key = Str_one
    /\ run.groups[2].key = Str_two

\* C9: item ordinals.  In every group the files are in ascending order of
\* their file names, and the file at position j is linked with item ordinal
\* j, so the item ordinals of a group of m files are 1..m.
C9_ItemOrdinals ==
    LinkDone =>
        \A g \in 1..Len(run.groups) :
           /\ \A j \in 1..(Len(run.groups[g].files) - 1) :
                 ~LexLess(LastSegment(run.groups[g].files[j + 1]),
                          LastSegment(run.groups[g].files[j]))
           /\ Len(LinkCallsOf(g)) = Len(run.groups[g].files)
           /\ \A j \in 1..Len(run.groups[g].files) :
                 /\ LinkCallsOf(g)[j].j + 1 = j
                 /\ LinkCallsOf(g)[j].target = run.groups[g].files[j]

\* a run on a disk that lists c.mp4 before "b c.mp4" in /lib/two
C9_Witness ==
    /\ LinkDone
    /\ input = <<File_two_c, File_two_b_c>>
    /\ run.groups[1].files = <<File_two_b_c, File_two_c>>
    /\ LinkCallsOf(1)[2].target = File_two_c

\* C10: partition by immediate parent.  Every qualifying file is a member
\* of exactly one group, the group whose key is the name of its parent
\* directory.
C10_Partition ==
    LinkDone =>
        \A k \in 1..Len(run.file_list) :
           \A g \in 1..Len(run.groups) :
              (\E j \in 1..Len(run.groups[g].files) :
                  run.groups[g].files[j] = run.file_list[k])
              <=> run.groups[g].key = ParentName(run.file_list[k])

(***************************************************************************)
(* sym_link: the default (non-Season) mode                                 *)
(***************************************************************************)
\* file_name_array[file_name_array.len() - 1]
LinkFileName(file) ==
    LET file_name_array == Split(file, SLASH)
    IN  file_name_array[Len(file_name_array)]

\* format!("{}/{}", destination, file_name)
FlatLink(dest, file_name) == dest \o <<SLASH>> \o file_name

\* the locals of sym_link at its start
FreshSymLink == [file_list |-> <<>>, j |-> 0, faults |-> 0, log |-> <<>>]

\* the destination directory may or may not exist when sym_link is called
InitSymLink ==
    /\ op = "sym_link"
    /\ pc = "start"
    /\ input \in Listings
    /\ tree = new_from_directory(LibRoot, input)
    /\ run = FreshSymLink
    /\ fsys \in { [dirs |-> {}, links |-> {}],
                  [dirs |-> {destination}, links |-> {}] }
    /\ text = None
    /\ parsed = None
    /\ text2 = None
    /\ stack = None
    /\ result = None
    /\ calls = 0

\* let file_list = self.to_file_list("")
SymLinkFlatten ==
    /\ op = "sym_link"
    /\ pc = "start"
    /\ run' = [run EXCEPT !.file_list = to_file_list(tree, <<>>)]
    /\ pc' = "listed"
    /\ UNCHANGED <<op, tree, text, parsed, text2, input, stack, result, calls, fsys>>

\* one turn of the loop over file_list: the symlink call
SymLinkFile ==
    /\ op = "sym_link"
    /\ pc = "listed"
    /\ run.j < Len(run.file_list)
    /\ \E works \in BOOLEAN :
         /\ ~works => run.faults < MaxFaults
         /\ LET file == run.file_list[run.j + 1]
                file_name == LinkFileName(file)
                link == FlatLink(destination, file_name)
                linked == works /\ CanLink(fsys, link)
            IN  /\ fsys' = Symlink(fsys, file, link, linked)
                /\ run' = [run EXCEPT
                     !.j = @ + 1,
                     !.faults = IF works THEN @ ELSE @ + 1,
                     !.log = Append(@,
                         [call |-> "symlink", path |-> link, target |-> file,
                          i |-> 0, j |-> run.j, ok |-> linked])]
    /\ UNCHANGED <<op, pc, tree, text, parsed, text2, input, stack, result, calls>>

\* the file list is done: sym_link returns
SymLinkFinish ==
    /\ op = "sym_link"
    /\ pc = "listed"
    /\ run.j >= Len(run.file_list)
    /\ pc' = "done"
    /\ UNCHANGED <<op, tree, text, parsed, text2, input, stack, result, calls, run, fsys>>

NextSymLink == SymLinkFlatten \/ SymLinkFile \/ SymLinkFinish

SpecSymLink == InitSymLink /\ [][NextSymLink]_vars

\* the paths of the nodes of the tree: its directories
DirectoryPaths(t) == { AllPaths(t)[k] : k \in 1..Len(AllPaths(t)) }

\* the files of the tree
TreeFiles(t) == { AllFiles(t)[k] : k \in 1..Len(AllFiles(t)) }

\* C11: default mode.  When sym_link is done, a symlink call was made for
\* every file of the tree, at destination/<name of the file's directory>/
\* <file name> and pointing at the file's path, and no symlink call was made
\* for the path of a directory.
C11_DefaultMode ==
    (op = "sym_link" /\ pc = "done") =>
        /\ \A f \in TreeFiles(tree) :
              \E n \in 1..Len(run.log) :
                 /\ run.log[n].target = f
                 /\ run.log[n].path =
                       destination \o <<SLASH>> \o ParentName(f)
                       \o <<SLASH>> \o LastSegment(f)
        /\ \A n \in 1..Len(run.log) :
              run.log[n].target \notin DirectoryPaths(tree)

(***************************************************************************)
(* get_formatted_file_tree (entities/file_tree.rs)                         *)
(***************************************************************************)
\* "  ".repeat(n)
RECURSIVE Repeat2(_)
Repeat2(n) == IF n = 0 THEN <<>> ELSE <<SP, SP>> \o Repeat2(n - 1)

\* self.path.split("/").count() - 1
NumOfSpaces(path) == Len(Split(path, SLASH)) - 1

\* the line pushed for a file: a line feed, the spaces, the connector and
\* the file with the node's path removed from it
FormattedFile(path, file, connector) ==
    <<NL>> \o Repeat2(NumOfSpaces(path)) \o connector
    \o Replace(file, path, <<>>)

RECURSIVE get_formatted_file_tree(_)
RECURSIVE FormattedDirectories(_, _, _)
\* the loop over self.directories, from the i-th on
FormattedDirectories(path, dirs, i) ==
    IF i > Len(dirs) THEN <<>>
    ELSE <<NL>> \o Repeat2(NumOfSpaces(path))
         \o get_formatted_file_tree(dirs[i])
         \o FormattedDirectories(path, dirs, i + 1)

\* the loops over self.files, from the k-th file on: all but the last with
\* the branch connector, then the last with the closing connector
RECURSIVE FormattedFiles(_, _, _)
FormattedFiles(path, files, k) ==
    IF k > Len(files) THEN <<>>
    ELSE FormattedFile(path, files[k],
                       IF k = Len(files) THEN LAST ELSE BRANCH)
         \o FormattedFiles(path, files, k + 1)

\* a faulty variant of get_formatted_file_tree: the path is not pushed
get_formatted_file_tree_NoPath(t) ==
    FormattedFiles(t.path, t.files, 1)
    \o FormattedDirectories(t.path, t.directories, 1)

get_formatted_file_tree(t) ==
    t.path
    \o FormattedFiles(t.path, t.files, 1)
    \o FormattedDirectories(t.path, t.directories, 1)

(***************************************************************************)
(* new_from_file_tree on a text that is read from a file                   *)
(***************************************************************************)
\* bound: the number of lines of a text after its first line
MaxLines == 3

\* the first lines of the texts: a root label
RootLines == { <<"r">> }

\* the lines after the first line: directories and a file of the root,
\* directories and files one level down, behind the vertical continuation
\* and behind four spaces, a branch connector with no name, and the line of
\* four spaces that to_file_tree prints below a directory that holds nothing
DiagramLines ==
    LET d    == <<"d">>                     \* a directory
        a_ts == <<"a", ".", "t", "s">>      \* a file with a recognised suffix
    IN  { BRANCH \o d, LAST \o d, BRANCH \o a_ts,
          CONT \o BRANCH \o d, CONT \o LAST \o a_ts,
          INDENT \o BRANCH \o d, INDENT \o LAST \o a_ts,
          BRANCH, INDENT }

\* the texts: the empty text, and the texts of a first line and at most
\* MaxLines lines after it, joined by line feeds
Texts ==
    { <<>> } \cup
    UNION { { Join(<<root>> \o ls, NL) :
                root \in RootLines, ls \in [1..n -> DiagramLines] } :
            n \in 0..MaxLines }

InitParse ==
    /\ op = "parse"
    /\ pc = "start"
    /\ text \in Texts
    /\ parsed = None
    /\ text2 = None
    /\ tree = None
    /\ input = None
    /\ stack = None
    /\ result = None
    /\ calls = 0
    /\ run = None
    /\ fsys = None

\* let file_tree = FileTree::new_from_file_tree(contents)
ParseText ==
    /\ op = "parse"
    /\ pc = "start"
    /\ parsed' = new_from_file_tree(text)
    /\ pc' = IF IsPanic(parsed') THEN "panicked" ELSE "parsed"
    /\ UNCHANGED <<op, tree, text, text2, input, stack, result, calls, run, fsys>>

\* let formated_file_tree = file_tree.clone().get_formatted_file_tree()
FormatParsed ==
    /\ op = "parse"
    /\ pc = "parsed"
    /\ text2' = get_formatted_file_tree(parsed)
    /\ pc' = "formatted"
    /\ UNCHANGED <<op, tree, text, parsed, input, stack, result, calls, run, fsys>>

NextParse == ParseText \/ FormatParsed

SpecParse == InitParse /\ [][NextParse]_vars

\* both builders that take their input from the caller: a vector of paths,
\* or a text
InitBuild == InitBuilder \/ InitParse

NextBuild == NextBuilder \/ NextParse

SpecBuild == InitBuild /\ [][NextBuild]_vars

(***************************************************************************)
(* Properties of the builders                                              *)
(***************************************************************************)
\* C12: empty input is rejected.  new_from_file_tree called with the empty
\* text (the text of zero lines) and new_from_string_vector called with the
\* empty vector both panic: no FileTree is returned.
C12_EmptyRejected ==
    /\ (op = "parse" /\ text = <<>> /\ pc # "start") =>
          /\ pc = "panicked"
          /\ IsPanic(parsed)
    /\ (op = "builder" /\ input = <<>> /\ pc # "start") =>
          /\ pc = "panicked"
          /\ result = None
          /\ stack = <<>>

\* new_from_file_tree was called with the empty text and panicked
C12_Witness == op = "parse" /\ text = <<>> /\ pc = "panicked"

RECURSIVE UniqueChildren(_)
\* no node of t has two entries in directories with equal path
UniqueChildren(t) ==
    /\ \A i, j \in 1..Len(t.directories) :
          i # j => t.directories[i].path # t.directories[j].path
    /\ \A i \in 1..Len(t.directories) : UniqueChildren(t.directories[i])

\* the tree new_from_string_vector returned has unique children
C13_BuilderUnique ==
    (op = "builder" /\ pc = "done") => UniqueChildren(result)

\* the tree new_from_file_tree returned has unique children
C13_ParserUnique ==
    (op = "parse" /\ pc \in {"parsed", "formatted"}) => UniqueChildren(parsed)

\* C13: unique children.  In every tree returned by new_from_string_vector
\* or by new_from_file_tree, no node has two entries in directories with
\* equal path.
C13_UniqueChildren == C13_BuilderUnique /\ C13_ParserUnique

\* the number of segments of path p below the root of v, 0 when p is not
\* below it
SegmentsBelowRoot(p, v) ==
    IF Below(p, RootPathOf(v)) = <<>> THEN 0
    ELSE Len(Split(Below(p, RootPathOf(v)), SLASH))

\* p is listed in v as a directory directly under the root
IsListedDirectory(p, v) ==
    /\ \E k \in 1..Len(v) : v[k] = p
    /\ SegmentsBelowRoot(p, v) = 1
    /\ ~HasPostFix(p)

\* p is listed in v as a file inside a listed directory
IsListedFile(p, v) ==
    /\ \E k \in 1..Len(v) : v[k] = p
    /\ SegmentsBelowRoot(p, v) = 2
    /\ IsListedDirectory(ParentOf(p), v)

\* the shape of the documented example: the root path, directories directly
\* under it, and files inside those directories
DocumentedShape(v) ==
    /\ Len(v) > 0
    /\ Cardinality({k \in 1..Len(v) : IsRootOf(v[k], v)}) = 1
    /\ \A k \in 1..Len(v) :
          \/ IsRootOf(v[k], v)
          \/ IsListedDirectory(v[k], v)
          \/ IsListedFile(v[k], v)

\* t is the tree the documentation gives for v
DocumentedTree(t, v) ==
    /\ t.path = RootPathOf(v)
    /\ \A k \in 1..Len(t.files) : ~IsListedDirectory(t.files[k], v)
    /\ Len(t.directories)
          = Cardinality({k \in 1..Len(v) : IsListedDirectory(v[k], v)})
    /\ \A k \in 1..Len(v) :
          IsListedDirectory(v[k], v) =>
             \E c \in 1..Len(t.directories) :
                /\ t.directories[c].path = v[k]
                /\ t.directories[c].directories = <<>>
                /\ t.directories[c].files
                      = SelectSeq(v, LAMBDA f :
                            IsListedFile(f, v) /\ ParentOf(f) = v[k])

\* C14: the documented example.  For a vector holding a root path, the
\* paths of directories directly under it and the paths of files inside
\* those directories, new_from_string_vector returns the tree whose path is
\* the root and whose directories holds one child per listed directory,
\* with that directory's path and its listed files; a listed directory with
\* no listed descendant is a child with no files and no directories, not a
\* file of the root.
C14_DocumentedExample ==
    (op = "builder" /\ DocumentedShape(input)) =>
        /\ pc \notin {"panicked", "depth_exceeded"}
        /\ pc = "done" => DocumentedTree(result, input)

(***************************************************************************)
(* new_from_directory, one call frame per recursive call, with read_dir    *)
(* and metadata calls that may fail                                        *)
(***************************************************************************)
\* bound: the number of entries of the disk below its root, at any depth
MaxDiskEntries == 3

\* the names an entry of a directory may have
EntryNames == { <<"a">> \o Str_mp4, Str_one, Str_two }

\* the names of the entries of a listing
NamesIn(entries) ==
    { LastSegment(entries[k].path) : k \in 1..Len(entries) }

RECURSIVE DiskEntries(_, _)
\* the listings read_dir may yield for directory path when the disk holds n
\* entries below it: each entry is a file or a directory with its own
\* listing, no two entries of a directory have the same name, and the order
\* is the order read_dir yields them in
DiskEntries(path, n) ==
    IF n = 0 THEN { <<>> }
    ELSE UNION { UNION {
           { <<[path |-> path \o <<SLASH>> \o name, is_dir |-> FALSE,
                entries |-> <<>>]>> \o rest :
               rest \in { r \in DiskEntries(path, n - 1) :
                            name \notin NamesIn(r) } }
           \cup
           UNION { { <<[path |-> path \o <<SLASH>> \o name, is_dir |-> TRUE,
                        entries |-> sub]>> \o rest :
                       sub \in DiskEntries(path \o <<SLASH>> \o name, j - 1),
                       rest \in { r \in DiskEntries(path, n - j) :
                                    name \notin NamesIn(r) } } :
                   j \in 1..n } } : name \in EntryNames }

Disks == UNION { DiskEntries(LibRoot, n) : n \in 0..MaxDiskEntries }

\* the locals of a call for directory path whose read_dir yields entries
DirectoryFrame(path, entries) ==
    [path |-> path, entries |-> entries, idx |-> 1,
     files |-> <<>>, directories |-> <<>>]

\* a read_dir or metadata call, as it is recorded in the log
IoCall(call, path, ok) == [call |-> call, path |-> path, ok |-> ok]

\* a faulty variant of MetadataOutcome: an entry whose metadata cannot be
\* read is taken as a file
MetadataOutcome_Lenient(ok, is_dir) == IF ok /\ is_dir THEN "dir" ELSE "file"

\* fs::metadata(entry).unwrap().is_dir()
MetadataOutcome(ok, is_dir) ==
    IF ~ok THEN "panic" ELSE IF is_dir THEN "dir" ELSE "file"

InitDirectory ==
    /\ op = "directory"
    /\ pc = "start"
    /\ input \in Disks
    /\ stack = <<>>
    /\ result = None
    /\ run = [log |-> <<>>]
    /\ calls = 0
    /\ tree = None
    /\ text = None
    /\ parsed = None
    /\ text2 = None
    /\ fsys = None

\* FileTree::new_from_directory(path): fs::read_dir(path).unwrap()
CallDirectory ==
    /\ op = "directory"
    /\ pc = "start"
    /\ \E listed \in BOOLEAN :
         /\ run' = [run EXCEPT
                      !.log = Append(@, IoCall("read_dir", LibRoot, listed))]
         /\ IF listed
            THEN /\ stack' = <<DirectoryFrame(LibRoot, input)>>
                 /\ pc' = "running"
                 /\ calls' = 1
            ELSE /\ pc' = "panicked"
                 /\ UNCHANGED <<stack, calls>>
    /\ UNCHANGED <<op, tree, text, parsed, text2, input, result, fsys>>

InDirectoryLoop ==
    /\ op = "directory"
    /\ pc = "running"
    /\ Top.idx <= Len(Top.entries)

TopDirEntry == Top.entries[Top.idx]

\* entry.unwrap(): the iterator of read_dir yields an error
DirEntryError ==
    /\ InDirectoryLoop
    /\ run' = [run EXCEPT
                 !.log = Append(@, IoCall("read_dir", Top.path, FALSE))]
    /\ pc' = "panicked"
    /\ stack' = <<>>
    /\ UNCHANGED <<op, tree, text, parsed, text2, input, result, calls, fsys>>

\* fs::metadata(entry).unwrap(): the call fails
MetadataError ==
    /\ InDirectoryLoop
    /\ MetadataOutcome(FALSE, TopDirEntry.is_dir) = "panic"
    /\ run' = [run EXCEPT
                 !.log = Append(@, IoCall("metadata", TopDirEntry.path, FALSE))]
    /\ pc' = "panicked"
    /\ stack' = <<>>
    /\ UNCHANGED <<op, tree, text, parsed, text2, input, result, calls, fsys>>

\* the entry is not a directory: files.push(entry)
PushDirectoryFile ==
    /\ InDirectoryLoop
    /\ \E ok \in BOOLEAN :
         /\ MetadataOutcome(ok, TopDirEntry.is_dir) = "file"
         /\ run' = [run EXCEPT
                      !.log = Append(@, IoCall("metadata", TopDirEntry.path, ok))]
    /\ stack' = SetTop([Top EXCEPT !.files = Append(@, TopDirEntry.path),
                                   !.idx = @ + 1])
    /\ UNCHANGED <<op, pc, tree, text, parsed, text2, input, result, calls, fsys>>

\* the entry is a directory: the recursive call and its read_dir
EnterDirectory ==
    /\ InDirectoryLoop
    /\ MetadataOutcome(TRUE, TopDirEntry.is_dir) = "dir"
    /\ \E listed \in BOOLEAN :
         /\ run' = [run EXCEPT
                      !.log = @ \o <<IoCall("metadata", TopDirEntry.path, TRUE),
                                     IoCall("read_dir", TopDirEntry.path, listed)>>]
         /\ IF listed
            THEN /\ stack' = Append(stack,
                        DirectoryFrame(TopDirEntry.path, TopDirEntry.entries))
                 /\ calls' = calls + 1
                 /\ pc' = pc
            ELSE /\ pc' = "panicked"
                 /\ stack' = <<>>
                 /\ calls' = calls
    /\ UNCHANGED <<op, tree, text, parsed, text2, input, result, fsys>>

\* FileTree { path, files, directories }
ReturnDirectory ==
    /\ op = "directory"
    /\ pc = "running"
    /\ Top.idx > Len(Top.entries)
    /\ LET returned == [path |-> Top.path, files |-> Top.files,
                        directories |-> Top.directories]
           caller == stack[Len(stack) - 1]
       IN  IF Len(stack) = 1
           THEN /\ result' = returned
                /\ pc' = "done"
                /\ stack' = <<>>
           ELSE /\ stack' = [k \in 1..(Len(stack) - 1) |->
                               IF k = Len(stack) - 1
                               THEN [caller EXCEPT
                                       !.directories = Append(@, returned),
                                       !.idx = @ + 1]
                               ELSE stack[k]]
                /\ UNCHANGED <<result, pc>>
    /\ UNCHANGED <<op, tree, text, parsed, text2, input, calls, run, fsys>>

NextDirectory ==
    \/ CallDirectory
    \/ DirEntryError
    \/ MetadataError
    \/ PushDirectoryFile
    \/ EnterDirectory
    \/ ReturnDirectory

SpecDirectory == InitDirectory /\ [][NextDirectory]_vars

RECURSIVE NodeOf(_, _)
\* the node of directory path with the listing entries: its files are the
\* entries that are not directories, its directories the nodes of the
\* entries that are, each in the order of the listing
NodeOf(path, entries) ==
    LET file_entries == SelectSeq(entries, LAMBDA e : ~e.is_dir)
        dir_entries  == SelectSeq(entries, LAMBDA e : e.is_dir)
    IN  [path |-> path,
         files |-> [k \in 1..Len(file_entries) |-> file_entries[k].path],
         directories |-> [k \in 1..Len(dir_entries) |->
                             NodeOf(dir_entries[k].path, dir_entries[k].entries)]]

\* some read_dir or metadata call of the run failed
SomeCallFailed == \E n \in 1..Len(run.log) : ~run.log[n].ok

\* C15: new_from_directory is all-or-nothing.  When it returns, no call
\* failed and the result is the node of the root: files are the entries
\* that are not directories, directories the recursively built nodes of the
\* entries that are, each in listing order.  When a read_dir or metadata
\* call failed, at any depth, the call has panicked and returned nothing,
\* the trees built so far being dropped.
C15_AllOrNothing ==
    op = "directory" =>
        /\ pc = "done" =>
              /\ ~SomeCallFailed
              /\ result = NodeOf(LibRoot, input)
        /\ SomeCallFailed =>
              /\ pc = "panicked"
              /\ result = None
              /\ stack = <<>>

\* a metadata call failed two levels below the root, after a file and a
\* directory had been read
C15_Witness ==
    /\ op = "directory"
    /\ pc = "panicked"
    /\ calls = 2
    /\ Len(run.log) >= 4
    /\ run.log[Len(run.log)].call = "metadata"

\* a returned tree in which a file was listed after a directory
C15_WitnessReturned ==
    /\ op = "directory"
    /\ pc = "done"
    /\ Len(result.files) = 1
    /\ Len(result.directories) = 1
    /\ input[1].is_dir

(***************************************************************************)
(* Properties of new_from_file_tree on a given text                        *)
(***************************************************************************)
\* the first of the lines is a root label that is not empty
RootLabelled(ls) == StripConnectors(ls[1]) # <<>>

\* a character of the diagram notation: a glyph of a connector, or a space
IsNotation(c) == c \in {VBAR, TEE, HBAR, ELL, SP}

\* the line carries a name: something besides connectors and spaces
HasName(line) == \E k \in 1..Len(line) : ~IsNotation(line[k])

\* the line holds a branch connector
HasBranch(line) ==
    \/ Contains(line, <<TEE, HBAR, HBAR>>)
    \/ Contains(line, <<ELL, HBAR, HBAR>>)

\* every line after the first that holds a branch connector carries a name
NamedBranches(ls) ==
    \A k \in 2..Len(ls) : HasBranch(ls[k]) => HasName(ls[k])

RECURSIVE NodesOf(_)
\* the nodes of a tree: the tree and the nodes of its directories
NodesOf(t) ==
    {t} \cup UNION { NodesOf(t.directories[k]) : k \in 1..Len(t.directories) }

\* the lines of a formatted string; the empty string has none
OutputLines(s) == IF s = <<>> THEN <<>> ELSE Split(s, NL)

\* in the lines ls, the lines after the first `offset` ones are the file
\* lines of node t: one per file, in order, the last with the closing
\* connector and the others with the branch connector; and right after them
\* comes the header of the first directory of t, or nothing when t has no
\* directories
FileLinesAsClaimed(ls, offset, t) ==
    LET n == Len(t.files)
    IN  /\ Len(ls) >= offset + n
        /\ \A i \in 1..n :
              ls[offset + i] =
                 (IF i = n THEN LAST ELSE BRANCH) \o t.files[i]
        /\ IF Len(t.directories) = 0
           THEN Len(ls) = offset + n
           ELSE /\ Len(ls) > offset + n
                /\ ls[offset + n + 1] =
                      (IF Len(t.directories) = 1 THEN LAST ELSE BRANCH)
                      \o t.directories[1].path

\* C17: file connectors.  In the output of to_file_tree for a node with
\* n >= 1 files, the first n - 1 file lines start with the branch connector
\* and the n-th with the closing connector, whether or not directory lines
\* come after them; for a node with no files no file line is emitted.
C17_FileConnectors ==
    (op = "codec" /\ pc = "formatted") =>
        /\ FileLinesAsClaimed(OutputLines(text), 1, tree)
        /\ \A d \in NodesOf(tree) :
              FileLinesAsClaimed(OutputLines(to_file_tree(d, FALSE)), 0, d)

\* a formatted tree whose root has two files and a directory after them,
\* and a directory with no files
C17_Witness ==
    /\ op = "codec"
    /\ pc = "formatted"
    /\ Len(tree.files) = 2
    /\ Len(tree.directories) = 1
    /\ tree.directories[1].files = <<>>
    /\ StartsWith(OutputLines(text)[3], LAST)
    /\ StartsWith(OutputLines(text)[4], LAST)

\* the lines of the formatted subtree of a child, as str::split("\n") gives
\* them: the subtree of a child that holds nothing is one empty line
SubtreeLines(child) == Split(to_file_tree(child, FALSE), NL)

RECURSIVE LinesBefore(_, _)
\* the number of lines the children before the i-th take: for each its
\* header and its subtree lines
LinesBefore(dirs, i) ==
    IF i <= 1 THEN 0
    ELSE LinesBefore(dirs, i - 1) + 1 + Len(SubtreeLines(dirs[i - 1]))

\* in the lines ls, the lines after the first `offset` ones and the file
\* lines are the directory lines of node t: for each child in order its
\* header, with the branch connector or, for the last child, the closing
\* connector, then each line of its formatted subtree behind the vertical
\* continuation or, for the last child, behind four spaces; and nothing else
DirectoryLayoutAsClaimed(ls, offset, t) ==
    LET dirs  == t.directories
        first == offset + Len(t.files)
    IN  /\ Len(ls) = first + LinesBefore(dirs, Len(dirs) + 1)
        /\ \A i \in 1..Len(dirs) :
              LET at     == first + LinesBefore(dirs, i) + 1
                  last   == i = Len(dirs)
                  header == (IF last THEN LAST ELSE BRANCH) \o dirs[i].path
                  prefix == IF last THEN INDENT ELSE CONT
                  sub    == SubtreeLines(dirs[i])
              IN  /\ ls[at] = header
                  /\ \A k \in 1..Len(sub) : ls[at + k] = prefix \o sub[k]

\* C18: directory layout.  In the output of to_file_tree every child but
\* the last is printed as the header "TEE HBAR HBAR <path>" followed by the
\* lines of its recursively formatted subtree, each behind the vertical
\* continuation; the last child as "ELL HBAR HBAR <path>" followed by the lines
\* of its subtree, each behind four spaces.  The root label is the first
\* line when the root flag is true; it is not emitted when the flag is
\* false, so never for a child.
C18_DirectoryLayout ==
    (op = "codec" /\ pc = "formatted") =>
        LET ls == OutputLines(text)
        IN
        /\ ls[1] = tree.path
        /\ DirectoryLayoutAsClaimed(ls, 1, tree)
        /\ \A d \in NodesOf(tree) :
              DirectoryLayoutAsClaimed(OutputLines(to_file_tree(d, FALSE)), 0, d)

\* a formatted tree whose root has two directories, the first of them with
\* a subtree of two lines
C18_Witness ==
    /\ op = "codec"
    /\ pc = "formatted"
    /\ Len(tree.directories) = 2
    /\ Len(SubtreeLines(tree.directories[1])) = 2
    /\ StartsWith(OutputLines(text)[Len(tree.files) + 3], CONT)
    /\ StartsWith(OutputLines(text)[Len(tree.files) + 4], CONT)
    /\ StartsWith(OutputLines(text)[Len(tree.files) + 5], LAST)

\* new_from_file_tree has just returned a tree for the text
TextParsed == op = "parse" /\ pc = "parsed"

\* the position of the first branch glyph of the line, or one past its end
FirstBranchGlyph(line) ==
    LET at == { k \in 1..Len(line) : line[k] \in {TEE, ELL} }
    IN  IF at = {} THEN Len(line) + 1
        ELSE CHOOSE k \in at : \A j \in at : k <= j

\* the depth of a line as the spec gives it: the number of vertical
\* continuation glyphs before any branch glyph
GlyphDepth(line) ==
    Cardinality({ k \in 1..(FirstBranchGlyph(line) - 1) : line[k] = VBAR })

\* the line holds three spaces in a row
HasSpaceRun(line) ==
    \E k \in 1..(Len(line) - 2) :
        line[k] = SP /\ line[k + 1] = SP /\ line[k + 2] = SP

\* the line holds a vertical continuation glyph
HasVBar(line) == \E k \in 1..Len(line) : line[k] = VBAR

\* the lines, connectors removed
StrippedOf(kept) == [k \in 1..Len(kept) |-> StripConnectors(kept[k])]

\* the file lines as the spec describes them: depth zero and a
\* connector-stripped name that ends with a recognised suffix
IsFileLineAsStated(l) == GlyphDepth(l) = 0 /\ HasPostFix(StripConnectors(l))

\* the file lines: no vertical continuation glyph, no run of three spaces,
\* and a recognised suffix at the end of the line
IsFileLine(l) == ~HasVBar(l) /\ ~HasSpaceRun(l) /\ HasPostFix(l)

\* the text of the first of the lines ls and of those after it that are
\* not in `dropped`
TextWithout(ls, dropped) ==
    Join(<<ls[1]>> \o SelectSeq(Tail(ls), LAMBDA l : l \notin dropped), NL)

RemainingLines(ls) == SelectSeq(Tail(ls), LAMBDA l : ~IsFileLine(l))

\* a branch line of depth zero: it starts with a branch connector and holds
\* no vertical continuation glyph
IsBlockHeader(l) ==
    /\ Len(l) >= 3
    /\ l[1] \in {TEE, ELL}
    /\ l[2] = HBAR
    /\ l[3] = HBAR
    /\ ~HasVBar(l)

\* the positions of the block headers among the lines rl, in order
HeaderIndexes(rl) ==
    LET at == { k \in 1..Len(rl) : IsBlockHeader(rl[k]) }
    IN  [n \in 1..Cardinality(at) |->
            CHOOSE k \in at : Cardinality({ j \in at : j < k }) = n - 1]

\* the position of the last line of the n-th block: the line before the
\* next block header, or the last line
BlockEnd(rl, heads, n) ==
    IF n = Len(heads) THEN Len(rl) ELSE heads[n + 1] - 1

\* the header of a block with its connector removed
HeaderName(header) == Replace(Replace(header, BRANCH, <<>>), LAST, <<>>)

\* the text the n-th block is parsed from: its header with the connector
\* removed, then its other lines, each moved up one level
BlockText(rl, heads, n) ==
    LET body == SubSeq(rl, heads[n] + 1, BlockEnd(rl, heads, n))
        up   == [k \in 1..Len(body) |->
                    IF StartsWith(body[k], CONT)
                    THEN SubSeq(body[k], Len(CONT) + 1, Len(body[k]))
                    ELSE body[k]]
        all  == <<HeaderName(rl[heads[n]])>> \o up
    IN  Join(IF Len(up) >= 1 /\ StartsWith(up[1], INDENT)
             THEN [k \in 1..Len(all) |-> ReplaceFirst(all[k], INDENT, <<>>)]
             ELSE all, NL)

MaxTreeEntries == 3

RECURSIVE RoundTripForests(_)
\* the FileTrees of the round trip labelled from ls that hold exactly n
\* entries; a file name has a recognised suffix, with or without two
\* spaces before it, or has none
RoundTripNodes(ls, n) ==
    LET names == { <<"a", ".", "t", "s">>, <<SP, SP, "a", ".", "t", "s">>,
                   <<"n">> }
    IN  UNION { { [path |-> l, files |-> fs, directories |-> ds] :
                    l \in ls, fs \in [1..k -> names],
                    ds \in RoundTripForests(n - k) } :
                k \in 0..n }

\* the sequences of FileTrees of the round trip that make m entries; the
\* label of a child is d, with or without a carriage return after it
RoundTripForests(m) ==
    LET labels == { <<"d">>, <<"d", CR>> }
    IN  IF m = 0 THEN { <<>> }
        ELSE UNION { { <<t>> \o rest : t \in RoundTripNodes(labels, j - 1),
                                       rest \in RoundTripForests(m - j) } :
                     j \in 1..m }

\* the tree handed to to_file_tree: its root is labelled r or has the empty
\* label
InitRoundTrip ==
    /\ op = "codec"
    /\ pc = "start"
    /\ tree \in UNION { RoundTripNodes({ <<"r">>, <<>> }, n) :
                          n \in 0..MaxTreeEntries }
    /\ text = None
    /\ parsed = None
    /\ text2 = None
    /\ input = None
    /\ stack = None
    /\ result = None
    /\ calls = 0
    /\ run = None
    /\ fsys = None

SpecRoundTrip == InitRoundTrip /\ [][NextCodec]_vars

(***************************************************************************)
(* Properties of the model round trip                                      *)
(***************************************************************************)
\* the name holds no connector glyph, no run of three spaces and no line
\* feed
PlainName(s) ==
    /\ \A k \in 1..Len(s) : s[k] \notin {VBAR, TEE, HBAR, ELL, NL}
    /\ ~HasSpaceRun(s)

RECURSIVE WellFormed(_)
\* every file name of the tree ends with a recognised suffix, no label of a
\* directory ends with one, and no label or file name holds a connector
\* glyph, a run of three spaces or a line feed
WellFormed(t) ==
    /\ PlainName(t.path)
    /\ \A k \in 1..Len(t.files) :
          PlainName(t.files[k]) /\ HasPostFix(t.files[k])
    /\ \A k \in 1..Len(t.directories) :
          /\ ~HasPostFix(t.directories[k].path)
          /\ WellFormed(t.directories[k])

\* C21: model round trip.  For every tree in which each file name ends
\* with a recognised suffix, no directory label ends with one, and no label
\* or file name holds a connector glyph, a run of three spaces or a line
\* feed, new_from_file_tree(to_file_tree(tree, TRUE)) returns a tree equal
\* to it: the same path, the same files in the same order and the same
\* children in the same order at every depth, children with no files and
\* no children included.
C21_ModelRoundTrip ==
    (op = "codec" /\ pc \in {"parsed", "panicked"} /\ WellFormed(tree)) =>
        /\ pc = "parsed"
        /\ parsed = tree

====
